---------------------------- MODULE Spec2Model ----------------------------
(***************************************************************************)
(* A model of flashcard_generator.py: the history store, the batch         *)
(* selector (fetch_batch_questions), text normalisation (clean_text), the  *)
(* line wrapper (wrap_text over textwrap.wrap), the two card renderers'    *)
(* text blocks, and the batch pipeline (render_batch).                      *)
(*                                                                         *)
(* A Python str is a sequence of one-character strings.  A Python value    *)
(* that may be None is a record [none |-> BOOLEAN, s |-> str].              *)
(***************************************************************************)
EXTENDS Integers, Sequences, FiniteSets, TLC

VARIABLES
    \* ---- text functions (clean_text, wrap_text) ----
    tIn,        \* the argument text
    tOut,       \* what the last clean_text call returned
    tPrev,      \* what the clean_text call before it returned
    tPasses,    \* how many times clean_text has been applied
    wFont,      \* font.getbbox("x")[2] of the font handle passed to wrap_text
    wMaxWidth,  \* max_width passed to wrap_text
    wRes,       \* outcome of wrap_text: not called, returned lines, raised
    \* ---- card renderers (render_card_front, render_card_back) ----
    rCard,      \* the card being rendered: its question and explanation
    rFont,      \* which font get_font finds: a TrueType file or the fallback
    front,      \* the question block render_card_front drew
    back,       \* the explanation block render_card_back drew
    \* ---- files ----
    bankExists, \* os.path.exists(FLASHCARDS_JSON_PATH)
    bank,       \* the question bank file: a list of card records
    history,    \* the ids stored in HISTORY_FILE
    files,      \* the image files in OUTPUT_DIR: <<n, face>>
    manifest,   \* daily_flashcards.json: absent, or the ids of its cards
    \* ---- a direct call fetch_batch_questions(count) ----
    fCount,     \* its argument
    fRet,       \* what it returned
    \* ---- render_batch ----
    pc,         \* where render_batch stands: idle, front, back, history, manifest
    cards,      \* the records fetch_batch_questions returned to it
    i,          \* the loop index (enumerate starts at 0)
    results,    \* the manifest entries built so far (their ids)
    \* ---- history of the current run, for stating the properties ----
    runs,       \* render_batch runs started
    outcome,    \* how the last run ended: none, nocards, done, aborted
    written,    \* image files the current run has written
    manifestWritten, \* whether the current run has written the manifest
    histAtStart,\* the history store when the current run started
    failedAt    \* index of the record at which a step of this run failed, or -1

textVars == <<tIn, tOut, tPrev, tPasses, wFont, wMaxWidth, wRes>>
renderVars == <<rCard, rFont, front, back>>
storeVars == <<bankExists, bank, history, files, manifest>>
fetchVars == <<fCount, fRet>>
runVars == <<pc, cards, i, results>>
ghostVars == <<runs, outcome, written, manifestWritten, histAtStart, failedAt>>
batchVars == <<storeVars, fetchVars, runVars, ghostVars>>

vars == <<textVars, renderVars, batchVars>>

-----------------------------------------------------------------------------
(* Bounds of the text model *)

\* longest text handed to clean_text / wrap_text
MaxLen == 4
\* largest max_width handed to wrap_text
MaxWidth == 3
\* largest width of "x" in the fonts handed to wrap_text
MaxXWidth == 2
\* how often clean_text is re-applied to its own result
MaxPasses == 2

-----------------------------------------------------------------------------
(* Python strings *)

\* the emphasis markers clean_text deletes: star, underscore, backtick
\* ("bt" stands for the backtick, which a TLA+ string cannot hold)
Markers == {"*", "_", "bt"}
\* the whitespace characters of the alphabet (matched by the regex class
\* for whitespace and stripped by str.strip)
Whitespace == {" ", "\n"}
Alphabet == {"a", "b", "*", " ", "\n"}

RECURSIVE StrsOfLen(_)
StrsOfLen(n) ==
    IF n = 0 THEN {<<>>}
    ELSE {Append(s, c) : s \in StrsOfLen(n - 1), c \in Alphabet}

Texts == UNION {StrsOfLen(n) : n \in 0..MaxLen}

None == [none |-> TRUE, s |-> <<>>]
Str(s) == [none |-> FALSE, s |-> s]
\* Python truthiness of an optional str: not text
Falsy(v) == v.none \/ v.s = <<>>

\* the characters of s that are not in drop, in order
Filter(s, drop) == SelectSeq(s, LAMBDA c : c \notin drop)

\* the whitespace-run substitution: every maximal run becomes one space
\* (the run's last character becomes the space, the others go)
Collapse(s) ==
    LET marked == [k \in 1..Len(s) |->
                     IF s[k] \notin Whitespace THEN s[k]
                     ELSE IF k < Len(s) /\ s[k + 1] \in Whitespace
                          THEN "drop" ELSE " "]
    IN  SelectSeq(marked, LAMBDA c : c # "drop")

\* how many leading characters of s lie in (inSet) or out of (~inSet) set
Prefix(s, set, inSet) ==
    LET stops == {k \in 1..Len(s) : (s[k] \in set) # inSet}
    IN  IF stops = {} THEN Len(s)
        ELSE (CHOOSE k \in stops : \A j \in stops : k <= j) - 1

LStrip(s) == SubSeq(s, Prefix(s, Whitespace, TRUE) + 1, Len(s))

RStrip(s) ==
    LET keep == {k \in 1..Len(s) : s[k] \notin Whitespace}
    IN  IF keep = {} THEN <<>>
        ELSE SubSeq(s, 1, CHOOSE k \in keep : \A j \in keep : j <= k)

\* str.strip()
Strip(s) == RStrip(LStrip(s))

\* a plausible slip: whitespace collapsed and trimmed before the markers go
clean_text_markers_last(text) ==
    IF Falsy(text) THEN <<>>
    ELSE Filter(Strip(Collapse(text.s)), Markers)

\* clean_text(text), lines 90-94
clean_text(text) ==
    IF Falsy(text) THEN <<>>
    ELSE Strip(Collapse(Filter(text.s, Markers)))

-----------------------------------------------------------------------------
(* textwrap.wrap(p, width) with the defaults wrap_text uses:               *)
(* replace_whitespace, drop_whitespace, break_long_words all True.         *)

\* chunk.strip() is empty; true of the empty chunk too
IsBlank(chunk) == \A k \in 1..Len(chunk) : chunk[k] \in Whitespace

RECURSIVE SplitChunks(_, _)
\* TextWrapper._split: maximal runs of whitespace and of non-whitespace;
\* acc is the list of chunks read so far
SplitChunks(s, acc) ==
    IF s = <<>> THEN acc
    ELSE LET n == Prefix(s, Whitespace, Head(s) \in Whitespace)
         IN  SplitChunks(SubSeq(s, n + 1, Len(s)), Append(acc, SubSeq(s, 1, n)))

\* TextWrapper._munge_whitespace: each whitespace character becomes a space
Munge(s) == [k \in 1..Len(s) |-> IF s[k] \in Whitespace THEN " " ELSE s[k]]

RECURSIVE TakeCount(_, _, _)
\* how many leading chunks fit: while cur_len + len(chunk) <= width
TakeCount(chunks, curLen, width) ==
    IF chunks # <<>> /\ curLen + Len(Head(chunks)) <= width
    THEN 1 + TakeCount(Tail(chunks), curLen + Len(Head(chunks)), width)
    ELSE 0

RECURSIVE Concat(_)
Concat(chunks) ==
    IF chunks = <<>> THEN <<>> ELSE Head(chunks) \o Concat(Tail(chunks))

RECURSIVE WrapChunks(_, _, _)
\* TextWrapper._wrap_chunks, one pass of its outer loop per call
WrapChunks(chunks, width, lines) ==
    IF chunks = <<>> THEN lines
    ELSE
    LET c0 == IF IsBlank(Head(chunks)) /\ lines # <<>>
              THEN Tail(chunks) ELSE chunks
        k == TakeCount(c0, 0, width)
        cur == SubSeq(c0, 1, k)
        rest == SubSeq(c0, k + 1, Len(c0))
        curLen == Len(Concat(cur))
        long == rest # <<>> /\ Len(Head(rest)) > width
        \* _handle_long_word with break_long_words
        spaceLeft == IF width < 1 THEN 1 ELSE width - curLen
        cur2 == IF long THEN Append(cur, SubSeq(Head(rest), 1, spaceLeft))
                ELSE cur
        rest2 == IF long
                 THEN <<SubSeq(Head(rest), spaceLeft + 1, Len(Head(rest)))>>
                      \o Tail(rest)
                 ELSE rest
        cur3 == IF cur2 # <<>> /\ IsBlank(cur2[Len(cur2)])
                THEN SubSeq(cur2, 1, Len(cur2) - 1) ELSE cur2
        lines2 == IF cur3 # <<>> THEN Append(lines, Concat(cur3)) ELSE lines
    IN  WrapChunks(rest2, width, lines2)

\* textwrap.wrap(p, width) for width > 0
TextwrapWrap(p, width) == WrapChunks(SplitChunks(Munge(p), <<>>), width, <<>>)

RECURSIVE SplitLines(_)
\* text.split on the newline
SplitLines(s) ==
    LET n == Prefix(s, {"\n"}, FALSE)
    IN  IF n = Len(s) THEN <<s>>
        ELSE <<SubSeq(s, 1, n)>> \o SplitLines(SubSeq(s, n + 2, Len(s)))

\* int(max_width / (avg_char_width * 0.9)), line 129
MaxChars(maxWidth, avgCharWidth) == (10 * maxWidth) \div (9 * avgCharWidth)

RECURSIVE WrapParagraphs(_, _)
WrapParagraphs(paragraphs, maxChars) ==
    IF paragraphs = <<>> THEN <<>>
    ELSE TextwrapWrap(Head(paragraphs), maxChars)
         \o WrapParagraphs(Tail(paragraphs), maxChars)

\* wrap_text(text, font, max_width), lines 123-148.  Both branches of the
\* pixel-width test append the line, so the lines are textwrap's.
\* textwrap raises ValueError for a width <= 0.
wrap_text(text, avgCharWidth, maxWidth) ==
    IF Falsy(text) THEN [kind |-> "lines", lines |-> <<>>]
    ELSE LET maxChars == MaxChars(maxWidth, avgCharWidth)
         IN  IF maxChars <= 0 THEN [kind |-> "raised", lines |-> <<>>]
             ELSE [kind |-> "lines",
                   lines |-> WrapParagraphs(SplitLines(text.s), maxChars)]

-----------------------------------------------------------------------------
(* The text functions as a state machine: the inputs are drawn in Init *)

NotCalled == [kind |-> "none", lines |-> <<>>]

\* the batch pipeline at rest, with no files: not part of the text and
\* render specifications
BatchIdle ==
    /\ bankExists = FALSE /\ bank = <<>> /\ history = {} /\ files = {}
    /\ manifest = [exists |-> FALSE, cards |-> <<>>]
    /\ fCount = 0 /\ fRet = [called |-> FALSE, cards |-> <<>>]
    /\ pc = "idle" /\ cards = <<>> /\ i = 0 /\ results = <<>>
    /\ runs = 0 /\ outcome = "none" /\ written = {}
    /\ manifestWritten = FALSE /\ histAtStart = {} /\ failedAt = -1

\* a text block: whether it was drawn, how many lines wrap_text gave, how
\* many were drawn, twice the y of the first one, and the line pitch
NotDrawn == [called |-> FALSE, wrapped |-> 0, n |-> 0, y2 |-> 0, pitch |-> 0]

\* the card renderers are not part of the text specification
RenderIdle ==
    /\ rCard = [question |-> None, explanation |-> None]
    /\ rFont = "default"
    /\ front = NotDrawn
    /\ back = NotDrawn

InitText ==
    /\ RenderIdle
    /\ BatchIdle
    /\ tIn \in {None} \cup {Str(s) : s \in Texts}
    /\ tOut = None
    /\ tPrev = None
    /\ tPasses = 0
    /\ wFont \in 1..MaxXWidth
    /\ wMaxWidth \in 0..MaxWidth
    /\ wRes = NotCalled

\* clean_text applied to the input, then to its own result
Normalize ==
    /\ tPasses < MaxPasses
    /\ tPrev' = tOut
    /\ tOut' = Str(clean_text(IF tPasses = 0 THEN tIn ELSE tOut))
    /\ tPasses' = tPasses + 1
    /\ UNCHANGED <<tIn, wFont, wMaxWidth, wRes, renderVars, batchVars>>

\* wrap_text(text, font, max_width)
WrapText ==
    /\ wRes = NotCalled
    /\ wRes' = wrap_text(tIn, wFont, wMaxWidth)
    /\ UNCHANGED <<tIn, tOut, tPrev, tPasses, wFont, wMaxWidth, renderVars, batchVars>>

NextText == Normalize \/ WrapText

SpecText == InitText /\ [][NextText]_vars

-----------------------------------------------------------------------------
(* Card geometry, lines 37-38 and draw_glass_card_bg *)

W == 1080
H == 1350
card_margin_top == 220
card_margin_bottom == 180
card_margin_x == 60
\* height of the answer banner of the back face
ans_h == 240

\* the content box draw_glass_card_bg returns: (x1, y1, x2, y2)
cx1 == card_margin_x
cy1 == card_margin_top
cx2 == W - card_margin_x
cy2 == H - card_margin_bottom
card_w == cx2 - cx1
card_h == cy2 - cy1

(* Fonts.  get_font returns the first candidate file that loads at the      *)
(* requested size, else ImageFont.load_default().  The glyph metrics are    *)
(* Pillow's; a handle is modelled by the two numbers the renderers read:    *)
(* getbbox("x")[2] and getbbox("Ay")[3].                                    *)

\* metrics of the fallback bitmap font
DefaultXWidth == 6
DefaultAyBottom == 11

get_font(size, found) ==
    IF found = "truetype"
    THEN [xw |-> size \div 2, ay |-> size]
    ELSE [xw |-> DefaultXWidth, ay |-> DefaultAyBottom]

\* the font-size ladder of the question, lines 285-287
QuestionFontSize(question) ==
    IF Len(question) > 200 THEN 48
    ELSE IF Len(question) > 100 THEN 58 ELSE 68

\* the font-size ladder of the explanation, lines 404-406
ExplanationFontSize(exploration) ==
    IF Len(exploration) > 400 THEN 28
    ELSE IF Len(exploration) > 200 THEN 32 ELSE 38

\* the question block of render_card_front, lines 282-311: every wrapped
\* line is drawn, starting at start_y
FrontBlock(card, found) ==
    LET question == clean_text(card.question)
        font_q == get_font(QuestionFontSize(question), found)
        res == wrap_text(Str(question), font_q.xw, card_w - 140)
        line_height == font_q.ay + 15
        total_h == Len(res.lines) * line_height
    IN  [called |-> TRUE,
         wrapped |-> Len(res.lines),
         n |-> Len(res.lines),
         y2 |-> 2 * cy1 + (card_h - total_h),
         pitch |-> line_height]

RECURSIVE DrawClipped(_, _, _, _)
\* the drawing loop of the explanation, lines 415-418: stops at the first
\* line whose bottom would pass limit
DrawClipped(nLines, curr_y, line_h, limit) ==
    IF nLines = 0 \/ curr_y + line_h > limit THEN 0
    ELSE 1 + DrawClipped(nLines - 1, curr_y + line_h, line_h, limit)

\* where the explanation region starts, line 393
expl_y_start == cy1 + ans_h + 50

\* the explanation block of render_card_back, lines 398-418
BackBlock(card, found) ==
    LET exploration == clean_text(card.explanation)
        font_expl == get_font(ExplanationFontSize(exploration), found)
        res == wrap_text(Str(exploration), font_expl.xw, card_w - 120)
        line_h == font_expl.ay + 12
    IN  [called |-> TRUE,
         wrapped |-> Len(res.lines),
         n |-> DrawClipped(Len(res.lines), expl_y_start + 50, line_h, cy2 - 40),
         y2 |-> 2 * (expl_y_start + 50),
         pitch |-> line_h]

(* Bounds of the render model: a text is nWords words of WordLen letters *)
MaxWords == 16
WordLen == 34

RECURSIVE MakeText(_, _)
MakeText(nWords, wordLen) ==
    IF nWords = 0 THEN <<>>
    ELSE IF nWords = 1 THEN [k \in 1..wordLen |-> "a"]
         ELSE MakeText(nWords - 1, wordLen) \o <<" ">> \o [k \in 1..wordLen |-> "a"]

InitRender ==
    /\ BatchIdle
    /\ tIn = None /\ tOut = None /\ tPrev = None /\ tPasses = 0
    /\ wFont = 1 /\ wMaxWidth = 0 /\ wRes = NotCalled
    /\ \E nq \in 0..MaxWords, ne \in 0..MaxWords :
          rCard = [question |-> Str(MakeText(nq, WordLen)),
                   explanation |-> Str(MakeText(ne, WordLen))]
    /\ rFont \in {"truetype", "default"}
    /\ front = NotDrawn
    /\ back = NotDrawn

\* render_card_front(card): the question block
RenderCardFront ==
    /\ ~front.called
    /\ front' = FrontBlock(rCard, rFont)
    /\ UNCHANGED <<textVars, batchVars, rCard, rFont, back>>

\* render_card_back(card): the explanation block
RenderCardBack ==
    /\ ~back.called
    /\ back' = BackBlock(rCard, rFont)
    /\ UNCHANGED <<textVars, batchVars, rCard, rFont, front>>

NextRender == RenderCardFront \/ RenderCardBack

SpecRender == InitRender /\ [][NextRender]_vars

-----------------------------------------------------------------------------
(* The history store and the batch selector, lines 46-88.                  *)
(* The history list is used only through membership tests and append, so   *)
(* it is modelled by the set of its ids.                                    *)

BATCH_SIZE == 5
\* the explanation length the strict filter stays under, line 73
ExplCeiling == 600

Min(a, b) == IF a <= b THEN a ELSE b
Range(f) == {f[k] : k \in DOMAIN f}

\* a plausible slip: the file is rewritten with the new id alone
save_history_entry_overwrites(stored, q_id) == {q_id}

\* save_history_entry(q_id), lines 52-56, on a store that load_history reads
\* back as the ids in stored
save_history_entry(stored, q_id) ==
    IF q_id \notin stored THEN stored \cup {q_id} ELSE stored

\* not c.get('image')
NoImage(c) == c.image = ""

\* a plausible slip: the strict pool forgets the history filter
StrictPool_ignores_history(all_cards, used_ids) ==
    {k \in DOMAIN all_cards :
        NoImage(all_cards[k]) /\ all_cards[k].explLen < ExplCeiling}

\* the first pool, lines 68-74: unseen, no image, explanation under the ceiling
StrictPool(all_cards, used_ids) ==
    {k \in DOMAIN all_cards :
        /\ all_cards[k].id \notin used_ids
        /\ NoImage(all_cards[k])
        /\ all_cards[k].explLen < ExplCeiling}

\* the second pool, lines 78-82: unseen, no image
UnseenPool(all_cards, used_ids) ==
    {k \in DOMAIN all_cards :
        all_cards[k].id \notin used_ids /\ NoImage(all_cards[k])}

\* a plausible slip: the reset takes every card of the bank
ResetPool_with_images(all_cards) == DOMAIN all_cards

\* the pool after a reset, line 86: no image
ResetPool(all_cards) == {k \in DOMAIN all_cards : NoImage(all_cards[k])}

\* a plausible slip: the reset fires whenever the batch cannot be filled
NeedsReset_when_short(available, count) == Cardinality(available) < count

\* the reset test, line 84: if not available
NeedsReset(available, count) == available = {}

\* the pool the sample is drawn from, lines 68-86
Available(all_cards, used_ids, count) ==
    LET strict == StrictPool(all_cards, used_ids)
        relaxed == IF Cardinality(strict) < count
                   THEN UnseenPool(all_cards, used_ids) ELSE strict
    IN  IF NeedsReset(relaxed, count) THEN ResetPool(all_cards) ELSE relaxed

RECURSIVE Samples(_, _)
\* random.sample(population, k): every sequence of k distinct elements
Samples(population, k) ==
    IF k = 0 THEN {<<>>}
    ELSE UNION {{Append(p, x) : x \in population \ Range(p)} :
                   p \in Samples(population, k - 1)}

\* fetch_batch_questions(count), lines 58-88: the lists it may return
fetch_batch_questions(count, exists, all_cards, used_ids) ==
    IF ~exists THEN {<<>>}
    ELSE LET available == Available(all_cards, used_ids, count)
             k == Min(Cardinality(available), count)
         IN  {[j \in 1..k |-> all_cards[p[j]]] : p \in Samples(available, k)}

-----------------------------------------------------------------------------
(* Question banks and history stores the specifications start from *)

\* records of the bank files drawn: at most this many
MaxBank == 3
\* largest count passed to a direct fetch_batch_questions call (BATCH_SIZE is
\* passed too)
MaxCount == 3
\* render_batch runs in one behaviour
MaxRuns == 1

\* what the selector reads of a record: the image flag and the length of the
\* explanation, on either side of the ceiling
CardKinds ==
    {[image |-> im, explLen |-> e] :
        im \in {"", "img.png"}, e \in {ExplCeiling - 1, ExplCeiling}}

\* the banks of n records; ids are 1..n
BanksOfSize(n) ==
    {[k \in 1..n |-> [id |-> k, image |-> f[k].image, explLen |-> f[k].explLen]] :
        f \in [1..n -> CardKinds]}

\* a bank of n records without image whose explanations are under the ceiling
CleanBank(n) == [k \in 1..n |-> [id |-> k, image |-> "", explLen |-> ExplCeiling - 1]]

TextIdle ==
    /\ tIn = None /\ tOut = None /\ tPrev = None /\ tPasses = 0
    /\ wFont = 1 /\ wMaxWidth = 0 /\ wRes = NotCalled

RunIdle ==
    /\ files = {}
    /\ manifest = [exists |-> FALSE, cards |-> <<>>]
    /\ pc = "idle" /\ cards = <<>> /\ i = 0 /\ results = <<>>
    /\ runs = 0 /\ outcome = "none" /\ written = {}
    /\ manifestWritten = FALSE /\ histAtStart = {} /\ failedAt = -1

-----------------------------------------------------------------------------
(* fetch_batch_questions as a function of the bank, the history and count *)

InitFetch ==
    /\ TextIdle /\ RenderIdle /\ RunIdle
    /\ \/ /\ bankExists = FALSE
          /\ bank = <<>>
          /\ history \in SUBSET (0..1)
       \/ /\ bankExists = TRUE
          /\ \E n \in 0..MaxBank :
                bank \in BanksOfSize(n) /\ history \in SUBSET (0..n)
       \/ /\ bankExists = TRUE
          /\ bank = CleanBank(2 * BATCH_SIZE)
          /\ history \in {1..m : m \in {0, 2 * BATCH_SIZE - 1, 2 * BATCH_SIZE}}
    /\ fCount \in (0..MaxCount) \cup {BATCH_SIZE}
    /\ fRet = [called |-> FALSE, cards |-> <<>>]

\* a call fetch_batch_questions(fCount)
FetchCall ==
    /\ ~fRet.called
    /\ \E c \in fetch_batch_questions(fCount, bankExists, bank, history) :
          fRet' = [called |-> TRUE, cards |-> c]
    /\ UNCHANGED <<textVars, renderVars, storeVars, fCount, runVars, ghostVars>>

NextFetch == FetchCall

SpecFetch == InitFetch /\ [][NextFetch]_vars

-----------------------------------------------------------------------------
(* render_batch, lines 422-467, step by step *)

InitBatch ==
    /\ TextIdle /\ RenderIdle /\ RunIdle
    /\ \/ /\ bankExists = FALSE
          /\ bank = <<>>
          /\ history \in SUBSET (0..1)
       \/ /\ bankExists = TRUE
          /\ \E n \in 0..MaxBank :
                bank \in BanksOfSize(n) /\ history \in SUBSET (0..n)
       \/ /\ bankExists = TRUE
          /\ bank = CleanBank(BATCH_SIZE + 1)
          /\ history \in {{}, 1..BATCH_SIZE}
    /\ fCount = 0
    /\ fRet = [called |-> FALSE, cards |-> <<>>]

\* a plausible slip: the empty batch is not returned from early
EarlyReturn_never(fetched) == FALSE

\* if not cards: return, lines 425-427
EarlyReturn(fetched) == fetched = <<>>

\* render_batch is called: the batch is fetched; an empty one ends the run
RenderBatchStart ==
    /\ pc = "idle"
    /\ runs < MaxRuns
    /\ \E c \in fetch_batch_questions(BATCH_SIZE, bankExists, bank, history) :
          /\ cards' = c
          /\ IF EarlyReturn(c)
             THEN pc' = "idle" /\ outcome' = "nocards"
             ELSE /\ pc' = IF Len(c) = 0 THEN "manifest" ELSE "front"
                  /\ outcome' = "none"
    /\ i' = 0
    /\ results' = <<>>
    /\ runs' = runs + 1
    /\ written' = {}
    /\ manifestWritten' = FALSE
    /\ histAtStart' = history
    /\ failedAt' = -1
    /\ UNCHANGED <<textVars, renderVars, storeVars, fetchVars>>

\* the front face is rendered and saved as card_<i+1>_front, lines 436-439
SaveFront ==
    /\ pc = "front"
    /\ files' = files \cup {<<i + 1, "front">>}
    /\ written' = written \cup {<<i + 1, "front">>}
    /\ pc' = "back"
    /\ UNCHANGED <<textVars, renderVars, bankExists, bank, history, manifest,
                   fetchVars, cards, i, results,
                   runs, outcome, manifestWritten, histAtStart, failedAt>>

\* the back face is rendered and saved, and the manifest entry appended,
\* lines 442-455
SaveBack ==
    /\ pc = "back"
    /\ files' = files \cup {<<i + 1, "back">>}
    /\ written' = written \cup {<<i + 1, "back">>}
    /\ results' = Append(results, cards[i + 1].id)
    /\ pc' = "history"
    /\ UNCHANGED <<textVars, renderVars, bankExists, bank, history, manifest,
                   fetchVars, cards, i,
                   runs, outcome, manifestWritten, histAtStart, failedAt>>

\* where the loop goes after record i
AfterRecord == IF i + 1 < Len(cards) THEN "front" ELSE "manifest"

\* save_history_entry(q_id), line 457, and the loop's next iteration
SaveHistory ==
    /\ pc = "history"
    /\ history' = save_history_entry(history, cards[i + 1].id)
    /\ i' = i + 1
    /\ pc' = AfterRecord
    /\ UNCHANGED <<textVars, renderVars, bankExists, bank, files, manifest,
                   fetchVars, cards, results, ghostVars>>

\* the manifest is written, lines 460-465, and render_batch returns
WriteManifest ==
    /\ pc = "manifest"
    /\ manifest' = [exists |-> TRUE, cards |-> results]
    /\ manifestWritten' = TRUE
    /\ outcome' = "done"
    /\ pc' = "idle"
    /\ UNCHANGED <<textVars, renderVars, bankExists, bank, history, files,
                   fetchVars, cards, i, results,
                   runs, written, histAtStart, failedAt>>

Next == RenderBatchStart \/ SaveFront \/ SaveBack \/ SaveHistory \/ WriteManifest

Spec == InitBatch /\ [][Next]_vars

-----------------------------------------------------------------------------
(* render_batch when file operations fail.  render_batch has no try/except: *)
(* an exception raised by a step leaves it at once.  load_history catches   *)
(* every exception of its read and returns the empty list, lines 48-50.     *)

\* the ids a direct save_history_entry call is given: one that is in no
\* bank and the id of the first record
HistoryIds == 0..1

\* an exception leaves render_batch while record i is processed
Abort ==
    /\ pc' = "idle"
    /\ outcome' = "aborted"
    /\ failedAt' = i

\* render_card_front or img_f.save raises, lines 436-439
FrontFails ==
    /\ pc = "front"
    /\ Abort
    /\ UNCHANGED <<textVars, renderVars, storeVars, fetchVars, cards, i, results,
                   runs, written, manifestWritten, histAtStart>>

\* render_card_back or img_b.save raises, lines 442-445: the front image of
\* the record stays on disk
BackFails ==
    /\ pc = "back"
    /\ Abort
    /\ UNCHANGED <<textVars, renderVars, storeVars, fetchVars, cards, i, results,
                   runs, written, manifestWritten, histAtStart>>

\* save_history_entry raises on writing the file, line 56: both images of
\* the record stay on disk
HistoryWriteFails ==
    /\ pc = "history"
    /\ cards[i + 1].id \notin history
    /\ Abort
    /\ UNCHANGED <<textVars, renderVars, storeVars, fetchVars, cards, i, results,
                   runs, written, manifestWritten, histAtStart>>

\* save_history_entry when the stored history cannot be read back:
\* load_history returns the empty list and the file is rewritten from it
HistoryUnreadable ==
    /\ pc = "history"
    /\ history' = save_history_entry({}, cards[i + 1].id)
    /\ i' = i + 1
    /\ pc' = AfterRecord
    /\ UNCHANGED <<textVars, renderVars, bankExists, bank, files, manifest,
                   fetchVars, cards, results, ghostVars>>

\* writing the manifest raises, lines 461-465
ManifestFails ==
    /\ pc = "manifest"
    /\ pc' = "idle"
    /\ outcome' = "aborted"
    /\ UNCHANGED <<textVars, renderVars, storeVars, fetchVars, cards, i, results,
                   runs, written, manifestWritten, histAtStart, failedAt>>

\* a direct call save_history_entry(q_id)
SaveHistoryEntryCall ==
    /\ pc = "idle"
    /\ \E q_id \in HistoryIds : history' = save_history_entry(history, q_id)
    /\ UNCHANGED <<textVars, renderVars, bankExists, bank, files, manifest,
                   fetchVars, runVars, ghostVars>>

\* a direct call save_history_entry(q_id) when the stored history cannot be
\* read back
SaveHistoryEntryUnreadable ==
    /\ pc = "idle"
    /\ \E q_id \in HistoryIds : history' = save_history_entry({}, q_id)
    /\ UNCHANGED <<textVars, renderVars, bankExists, bank, files, manifest,
                   fetchVars, runVars, ghostVars>>

NextFault ==
    \/ Next
    \/ FrontFails \/ BackFails \/ HistoryWriteFails \/ HistoryUnreadable
    \/ ManifestFails
    \/ SaveHistoryEntryCall \/ SaveHistoryEntryUnreadable

SpecFault == InitBatch /\ [][NextFault]_vars

-----------------------------------------------------------------------------
(* Properties of fetch_batch_questions, under SpecFetch *)

\* the records of the bank the selector may ever take: those without image
NonImage == {k \in DOMAIN bank : bank[k].image = ""}
\* those of them whose id is not in the history store
UnseenNonImage == {k \in NonImage : bank[k].id \notin history}
ReturnedIds == {fRet.cards[j].id : j \in 1..Len(fRet.cards)}

C2_NoSeenWhileUnseen ==
    (fRet.called /\ UnseenNonImage # {}) => ReturnedIds \cap history = {}

\* a call that could not fill the batch from unseen records although a seen
\* record without image was at hand
C2_Witness ==
    /\ fRet.called
    /\ UnseenNonImage # {}
    /\ NonImage \ UnseenNonImage # {}
    /\ 0 < Len(fRet.cards)
    /\ Len(fRet.cards) < fCount

\* C3: no returned record has a non-empty image field, at any filter stage.
C3_NoImageCard ==
    fRet.called => \A j \in 1..Len(fRet.cards) : fRet.cards[j].image = ""

\* a call that took the reset stage on a bank holding a record with an image
C3_Witness ==
    /\ fRet.called
    /\ UnseenNonImage = {}
    /\ Len(fRet.cards) > 0
    /\ \E k \in DOMAIN bank : bank[k].image # ""

-----------------------------------------------------------------------------
(* Properties of render_batch, under Spec and SpecFault *)

FacesOf(k) == {<<n, face>> : n \in 1..k, face \in {"front", "back"}}

\* C4: a run that completes with k >= 1 selected records has written exactly
\* the files card_1..card_k front and back, a manifest listing the k ids in
\* selection order, and has every one of the k ids in the history store; k
\* is the batch size when that many unseen records without image and with
\* an explanation under the ceiling were in the bank.
C4_CompletedRun ==
    (pc = "idle" /\ outcome = "done")
        => LET k == Len(cards)
           IN  /\ k >= 1
               /\ written = FacesOf(k)
               /\ manifestWritten
               /\ manifest = [exists |-> TRUE,
                              cards |-> [j \in 1..k |-> cards[j].id]]
               /\ \A j \in 1..k : cards[j].id \in history
               /\ Cardinality(StrictPool(bank, histAtStart)) >= BATCH_SIZE
                     => k = BATCH_SIZE

\* a completed run of a full batch drawn from more unseen records than fit
C4_Witness ==
    /\ pc = "idle" /\ outcome = "done"
    /\ Len(cards) = BATCH_SIZE
    /\ Cardinality(StrictPool(bank, histAtStart)) > BATCH_SIZE
    /\ histAtStart = {}

\* C5: a failure while one record is processed does not abort the batch:
\* the run still processes every later record and writes the manifest, and
\* the images already written for the failed record stay.
C5_FailureDoesNotAbort ==
    (pc = "idle" /\ failedAt # -1)
        => /\ manifestWritten
           /\ \A n \in (failedAt + 2)..Len(cards) :
                 {<<n, "front">>, <<n, "back">>} \subseteq written
           /\ written \subseteq files

\* C6: with the bank file absent a run ends before any record is processed
\* and has written no image and no manifest and left the history as it was.
C6_MissingBankWritesNothing ==
    (~bankExists /\ runs > 0)
        => /\ pc = "idle"
           /\ outcome = "nocards"
           /\ written = {} /\ files = {}
           /\ ~manifestWritten /\ ~manifest.exists
           /\ history = histAtStart

\* a run without bank file over a history store that holds ids
C6_Witness == ~bankExists /\ runs > 0 /\ outcome = "nocards" /\ history # {}

\* C10: the history store is append-only: an id once in it stays in it.
C10_HistoryAppendOnly == [][history \subseteq history']_vars

-----------------------------------------------------------------------------
(* Properties of the text functions, under SpecText and SpecRender *)

\* the words of a text: its maximal runs of non-whitespace
Words(s) == SelectSeq(SplitChunks(s, <<>>), LAMBDA c : ~IsBlank(c))

RECURSIVE LineWords(_)
\* the words of the lines, read in order
LineWords(lines) ==
    IF lines = <<>> THEN <<>>
    ELSE Words(Head(lines)) \o LineWords(Tail(lines))

\* C7: for a text with at least one word and a positive character budget,
\* wrap_text returns a non-empty list of lines whose words, read in order,
\* are the words of the text: no word is lost, duplicated or split, and a
\* word longer than the budget is one line.
C7_WrapKeepsWords ==
    (/\ wRes.kind # "none"
     /\ ~tIn.none
     /\ Words(tIn.s) # <<>>
     /\ MaxChars(wMaxWidth, wFont) > 0)
        => /\ wRes.kind = "lines"
           /\ wRes.lines # <<>>
           /\ LineWords(wRes.lines) = Words(tIn.s)

\* C8: the lines drawn of a text block are at most floor((H - margin) / p)
\* for the region height H and the line pitch p: for the question in the
\* card panel (margin 0) and for the explanation below its label (the
\* margin of 40 the code keeps).
C8_LinesFitRegion ==
    /\ front.called => front.n <= card_h \div front.pitch
    /\ back.called
          => back.n <= ((cy2 - (expl_y_start + 50)) - 40) \div back.pitch

\* C9: clean_text is idempotent: applied to its own result it returns it.
C9_CleanTextIdempotent == tPasses >= 2 => tOut = tPrev

\* clean_text was applied twice to a text it changes to a non-empty one
C9_Witness ==
    /\ tPasses = 2
    /\ ~tIn.none
    /\ tOut.s # <<>>
    /\ tOut.s # tIn.s
    /\ \E k \in 1..Len(tIn.s) : tIn.s[k] \in Markers

=============================================================================
